---------------------------- MODULE Spec2Model ----------------------------
(***************************************************************************)
(* A model of si7021_hal: the CRC-8 accumulator (Crc8), the measurement    *)
(* and serial-number decoders, the user/heater register codec              *)
(* (src/src/internal/mod.rs) and the Si7021 accessors (src/src/lib.rs).    *)
(*                                                                         *)
(* A u8 is an integer in 0..255; the operators ^, &, | and << of the       *)
(* source are computed bit by bit, truncated to the width of the type.     *)
(***************************************************************************)
EXTENDS Integers, Sequences, FiniteSets, TLC

VARIABLES
    crc,        \* Crc8.crc, the accumulator
    ret,        \* the value the last Crc8::update call returned (-1 before any call)
    prev,       \* Crc8.crc as the last update call found it
    input,      \* the slice the last update call was given
    fed,        \* every byte given to this Crc8 since Crc8::default(), in order
    obj,        \* the decoder constructed: "Humidity", "Temperature" or "SerialNumber"
    buffer,     \* its buffer field
    call,       \* the last method called on it ("new" after construction)
    setter,     \* the last method called on it that wrote to it ("new" before any)
    result,     \* what the last decoding method returned
    register,   \* UserHeaterRegister.register
    arg,        \* what that method was given ("none" before any)
    bus,        \* the transport calls the last Si7021 accessor made, in order
    device,     \* the device's user register and heater register
    heater      \* what the last Si7021::set_heater call was given

crcVars == <<crc, ret, prev, input, fed>>
decVars == <<obj, buffer, call, result>>
regVars == <<register, setter, arg>>
busVars == <<bus, device, heater>>

vars ==
    <<crc, ret, prev, input, fed, obj, buffer, call, result, register, setter,
      arg, bus, device, heater>>

(***************************************************************************)
(* u8 arithmetic                                                           *)
(***************************************************************************)
Byte == 0..255

RECURSIVE XorBits(_, _, _)
XorBits(a, b, n) ==
    IF n = 0 THEN 0
    ELSE (((a % 2) + (b % 2)) % 2) + 2 * XorBits(a \div 2, b \div 2, n - 1)

RECURSIVE AndBits(_, _, _)
AndBits(a, b, n) ==
    IF n = 0 THEN 0
    ELSE ((a % 2) * (b % 2)) + 2 * AndBits(a \div 2, b \div 2, n - 1)

RECURSIVE OrBits(_, _, _)
OrBits(a, b, n) ==
    IF n = 0 THEN 0
    ELSE (IF (a % 2) + (b % 2) > 0 THEN 1 ELSE 0) + 2 * OrBits(a \div 2, b \div 2, n - 1)

\* The three operators on u8, tabulated once.
XorTable == [x \in Byte |-> [y \in Byte |-> XorBits(x, y, 8)]]
AndTable == [x \in Byte |-> [y \in Byte |-> AndBits(x, y, 8)]]
OrTable == [x \in Byte |-> [y \in Byte |-> OrBits(x, y, 8)]]

\* a ^ b, a & b, a | b on u8
Xor8(a, b) == XorTable[a][b]
And8(a, b) == AndTable[a][b]
Or8(a, b) == OrTable[a][b]
\* a << n on u8: the bits shifted out of the byte are lost
Shl8(a, n) == (a * (2 ^ n)) % 256

(***************************************************************************)
(* Crc8::update                                                            *)
(***************************************************************************)
\* The loop body with the polynomial's nibbles swapped (0x13 for 0x31).
Crc8ShiftWrongPoly(c) ==
    IF And8(c, 128) = 0 THEN Shl8(c, 1) ELSE Xor8(Shl8(c, 1), 19)

\* One pass of the body of `for _ in 0..8`.
Crc8Shift(c) ==
    IF And8(c, 128) = 0 THEN Shl8(c, 1) ELSE Xor8(Shl8(c, 1), 49)

\* `for _ in 0..8 { ... }`: n passes of the loop body.
RECURSIVE Crc8Loop(_, _)
Crc8Loop(c, n) == IF n = 0 THEN c ELSE Crc8Loop(Crc8Shift(c), n - 1)

\* The eight passes, tabulated once per accumulator value.
Crc8Table == [c \in Byte |-> Crc8Loop(c, 8)]

\* `self.crc ^= *b;` and the inner loop, for one byte b of the input.
Crc8Byte(c, b) == Crc8Table[Xor8(c, b)]

\* `for b in input { ... }`: the accumulator after the whole slice.
RECURSIVE Crc8Fold(_, _)
Crc8Fold(c, in) ==
    IF in = <<>> THEN c ELSE Crc8Fold(Crc8Byte(c, Head(in)), Tail(in))

\* A Crc8::update that starts every call from a cleared accumulator.
Crc8_updateFresh(c, in) == Crc8Fold(0, in)

\* Crc8::update(&mut self, input): the new self.crc, which is also returned.
Crc8_update(c, in) == Crc8Fold(c, in)

\* Crc8::default(): the derived Default of a u8 field.
Crc8_default == 0

(***************************************************************************)
(* Results: Ok(v) and Err(e) of Result<_, Error<E>>                        *)
(***************************************************************************)
NoResult == [tag |-> "None"]
Ok(v) == [tag |-> "Ok", val |-> v]
Err(e) == [tag |-> "Err", err |-> e]

(***************************************************************************)
(* Each specification below constructs one object and calls its methods;   *)
(* the variables of the objects it does not construct keep these values.   *)
(***************************************************************************)
\* No Crc8 outlives the decoding call that makes it.
CrcIdle ==
    /\ crc = Crc8_default
    /\ ret = -1
    /\ prev = Crc8_default
    /\ input = <<>>
    /\ fed = <<>>

\* No decoder is constructed.
DecIdle ==
    /\ obj = "none"
    /\ buffer = <<>>
    /\ call = "none"
    /\ result = NoResult

\* No UserHeaterRegister is constructed.
RegIdle ==
    /\ register = <<>>
    /\ setter = "none"
    /\ arg = "none"

\* No Si7021 is constructed: no transport is called.
BusIdle ==
    /\ bus = <<>>
    /\ device = <<0, 0>>
    /\ heater = NoResult

(***************************************************************************)
(* The Crc8 accumulator as a state machine                                 *)
(***************************************************************************)
\* The most bytes one Crc8 is given in a run.
MaxFed == 4

\* The inputs of the unit tests update_crc, update_crc3 and update_crc_chunks.
CrcVector1 == <<132, 44, 249, 177>>
CrcVector2 == <<21, 255, 255, 255>>
CrcChain == <<190, 91, 158, 168>>

\* The bytes later calls draw their slices from.
CrcAlphabet == {132, 44, 249, 177}

SlicesUpTo(n) == UNION {[1..k -> CrcAlphabet] : k \in 0..n}

\* The slices a call may be given: any single byte or a test vector on a fresh
\* accumulator, and any slice over CrcAlphabet that keeps within MaxFed.
CrcInputs ==
    SlicesUpTo(MaxFed - Len(fed))
        \cup (IF fed = <<>> THEN {<<b>> : b \in Byte} \cup {CrcVector2} ELSE {})

CrcInit ==
    /\ crc = Crc8_default
    /\ ret = -1
    /\ prev = Crc8_default
    /\ input = <<>>
    /\ fed = <<>>

Update ==
    \E in \in CrcInputs :
        /\ crc' = Crc8_update(crc, in)
        /\ ret' = crc'
        /\ prev' = crc
        /\ input' = in
        /\ fed' = fed \o in
        /\ UNCHANGED decVars
        /\ UNCHANGED regVars
        /\ UNCHANGED busVars

InitCrc == CrcInit /\ DecIdle /\ RegIdle /\ BusIdle

SpecCrc == InitCrc /\ [][Update]_vars

(***************************************************************************)
(* Humidity and Temperature                                                *)
(*                                                                         *)
(* A buffer [u8; 3] is a sequence indexed from 1: buffer[i] of the source  *)
(* is buf[i + 1] here.  The i32 products stay below 2^31 for every u16     *)
(* (17572 * 65535 = 1151581020), so no product wraps, and every dividend   *)
(* is non-negative, so Rust's truncating / is \div.                        *)
(***************************************************************************)
\* BigEndian::read_u16(&self.buffer): the first two bytes, most significant first.
BigEndian_read_u16(buf) == buf[1] * 256 + buf[2]

\* `crc.update(&self.buffer[0..2]) != self.buffer[2]` on a fresh Crc8.
ChecksumMismatch(buf) ==
    Crc8_update(Crc8_default, SubSeq(buf, 1, 2)) # buf[3]

\* The match of Humidity::humidity.
ClampNoUpper(val) == IF val < 0 THEN 0 ELSE val

Clamp(val) == IF val > 10000 THEN 10000 ELSE IF val < 0 THEN 0 ELSE val

\* Humidity::humidity(&self)
Humidity_humidity(buf) ==
    IF ChecksumMismatch(buf) THEN Err("ChecksumFailure")
    ELSE LET val == ((12500 * BigEndian_read_u16(buf)) \div 65536) - 600
         IN  Ok(Clamp(val))

\* A temperature_nocrc that tests only the first byte for the sentinel.
Temperature_temperature_nocrcMsbOnly(buf) ==
    IF buf[1] = 0 THEN Err("NoPreviousHumidityMeasurement")
    ELSE Ok(((17572 * BigEndian_read_u16(buf)) \div 65536) - 4685)

\* Temperature::temperature_nocrc(&self)
Temperature_temperature_nocrc(buf) ==
    IF SubSeq(buf, 1, 2) = <<0, 0>> THEN Err("NoPreviousHumidityMeasurement")
    ELSE Ok(((17572 * BigEndian_read_u16(buf)) \div 65536) - 4685)

\* A temperature that tests the sentinel before the checksum.
Temperature_temperatureSentinelFirst(buf) ==
    IF SubSeq(buf, 1, 2) = <<0, 0>> THEN Err("NoPreviousHumidityMeasurement")
    ELSE IF ChecksumMismatch(buf) THEN Err("ChecksumFailure")
    ELSE Temperature_temperature_nocrc(buf)

\* Temperature::temperature(&self)
Temperature_temperature(buf) ==
    IF ChecksumMismatch(buf) THEN Err("ChecksumFailure")
    ELSE Temperature_temperature_nocrc(buf)

(***************************************************************************)
(* The measurement decoders as a state machine: one decoder is             *)
(* constructed, its buffer is or is not filled, and a decoding method is   *)
(* called.                                                                 *)
(***************************************************************************)
\* The responses whose third byte is tried at every value.
TestSamples == {<<161, 166>>, <<102, 76>>, <<102, 68>>, <<0, 0>>}

\* The third bytes tried after [m, l]: the right checksum, the checksum with
\* its low bit flipped and with every bit flipped; every byte for TestSamples.
ThirdBytes(m, l) ==
    LET good == Crc8_update(Crc8_default, <<m, l>>)
    IN  IF <<m, l>> \in TestSamples THEN Byte
        ELSE {good, Xor8(good, 1), Xor8(good, 255)}

\* Humidity::new() / Temperature::new()
MeasurementInit ==
    /\ obj \in {"Humidity", "Temperature"}
    /\ buffer = <<0, 0, 0>>
    /\ call = "new"
    /\ result = NoResult

\* buf(): the caller overwrites all three bytes.
Buf ==
    /\ obj \in {"Humidity", "Temperature"}
    /\ call = "new"
    /\ \E m \in Byte, l \in Byte :
         \E c \in ThirdBytes(m, l) : buffer' = <<m, l, c>>
    /\ call' = "buf"
    /\ UNCHANGED <<obj, result>>
    /\ UNCHANGED crcVars
    /\ UNCHANGED busVars
    /\ UNCHANGED regVars

\* buf_nocrc(): the caller overwrites the first two bytes.
BufNocrc ==
    /\ obj = "Temperature"
    /\ call = "new"
    /\ \E m \in Byte, l \in Byte : buffer' = <<m, l, buffer[3]>>
    /\ call' = "buf_nocrc"
    /\ UNCHANGED <<obj, result>>
    /\ UNCHANGED crcVars
    /\ UNCHANGED busVars
    /\ UNCHANGED regVars

Humidity ==
    /\ obj = "Humidity"
    /\ call \in {"new", "buf"}
    /\ result' = Humidity_humidity(buffer)
    /\ call' = "humidity"
    /\ UNCHANGED <<obj, buffer>>
    /\ UNCHANGED crcVars
    /\ UNCHANGED busVars
    /\ UNCHANGED regVars

Temperature ==
    /\ obj = "Temperature"
    /\ call \in {"new", "buf", "buf_nocrc"}
    /\ result' = Temperature_temperature(buffer)
    /\ call' = "temperature"
    /\ UNCHANGED <<obj, buffer>>
    /\ UNCHANGED crcVars
    /\ UNCHANGED busVars
    /\ UNCHANGED regVars

TemperatureNocrc ==
    /\ obj = "Temperature"
    /\ call \in {"new", "buf", "buf_nocrc"}
    /\ result' = Temperature_temperature_nocrc(buffer)
    /\ call' = "temperature_nocrc"
    /\ UNCHANGED <<obj, buffer>>
    /\ UNCHANGED crcVars
    /\ UNCHANGED busVars
    /\ UNCHANGED regVars

MeasurementNext == Buf \/ BufNocrc \/ Humidity \/ Temperature \/ TemperatureNocrc

InitMeasurement == MeasurementInit /\ CrcIdle /\ RegIdle /\ BusIdle

SpecMeasurement == InitMeasurement /\ [][MeasurementNext]_vars


(***************************************************************************)
(* SerialNumber                                                            *)
(*                                                                         *)
(* A u64 is the sequence of its 8 bytes, most significant first.           *)
(***************************************************************************)
\* u64::from(b) of a u8
U64_from(b) == <<0, 0, 0, 0, 0, 0, 0, b>>

\* x << n on u64, n a multiple of 8: the bytes shifted out are lost
Shl64(x, n) ==
    [i \in 1..8 |-> IF i + (n \div 8) <= 8 THEN x[i + (n \div 8)] ELSE 0]

\* x | y on u64
Or64(x, y) == [i \in 1..8 |-> Or8(x[i], y[i])]

\* A serial_number whose second checksum goes on in the first one's Crc8.
SerialNumber_serial_numberOneCrc(buf) ==
    LET sna == <<buf[1], buf[3], buf[5], buf[7]>>
        snb == <<buf[9], buf[10], buf[12], buf[13]>>
        after_a == Crc8_update(Crc8_default, sna)
    IN  IF after_a # buf[8] THEN Err("ChecksumFailure")
        ELSE IF Crc8_update(after_a, snb) # buf[14] THEN Err("ChecksumFailure")
        ELSE Ok(Or64(Or64(Or64(Or64(Or64(Or64(Or64(
                Shl64(U64_from(sna[1]), 56),
                Shl64(U64_from(sna[2]), 48)),
                Shl64(U64_from(sna[3]), 40)),
                Shl64(U64_from(sna[4]), 32)),
                Shl64(U64_from(snb[1]), 24)),
                Shl64(U64_from(snb[2]), 16)),
                Shl64(U64_from(snb[3]), 8)),
                U64_from(snb[4])))

\* SerialNumber::serial_number(&self)
SerialNumber_serial_number(buf) ==
    LET sna == <<buf[1], buf[3], buf[5], buf[7]>>
        crc_a == buf[8]
        snb == <<buf[9], buf[10], buf[12], buf[13]>>
        crc_b == buf[14]
    IN  IF Crc8_update(Crc8_default, sna) # crc_a THEN Err("ChecksumFailure")
        ELSE IF Crc8_update(Crc8_default, snb) # crc_b THEN Err("ChecksumFailure")
        ELSE Ok(Or64(Or64(Or64(Or64(Or64(Or64(Or64(
                Shl64(U64_from(sna[1]), 56),
                Shl64(U64_from(sna[2]), 48)),
                Shl64(U64_from(sna[3]), 40)),
                Shl64(U64_from(sna[4]), 32)),
                Shl64(U64_from(snb[1]), 24)),
                Shl64(U64_from(snb[2]), 16)),
                Shl64(U64_from(snb[3]), 8)),
                U64_from(snb[4])))

(***************************************************************************)
(* The serial-number decoder as a state machine                            *)
(***************************************************************************)
\* The responses of the integration test get_serial_number.
TestId1 == <<132, 190, 44, 91, 249, 158, 177, 168>>
TestId2 == <<21, 255, 181, 255, 255, 203>>

\* The values tried at a position: the test's byte there, 0x00 and, at the
\* positions the decoder reads, the test's byte with every bit flipped.
Tried(t, read) == IF read THEN {t, 0, Xor8(t, 255)} ELSE {t, 0}

\* The checksum bytes tried after the data bytes d.
TrailingBytes(d, t) ==
    LET good == Crc8_update(Crc8_default, d)
    IN  {good, Xor8(good, 1), t}

Id1Responses ==
    UNION {{<<a, x, b, y, c, z, d, k>> :
                k \in TrailingBytes(<<a, b, c, d>>, TestId1[8])} :
            a \in Tried(TestId1[1], TRUE), x \in Tried(TestId1[2], FALSE),
            b \in Tried(TestId1[3], FALSE), y \in Tried(TestId1[4], FALSE),
            c \in Tried(TestId1[5], TRUE), z \in Tried(TestId1[6], FALSE),
            d \in Tried(TestId1[7], FALSE)}

Id2Responses ==
    UNION {{<<a, b, x, c, d, k>> :
                k \in TrailingBytes(<<a, b, c, d>>, TestId2[6])} :
            a \in Tried(TestId2[1], FALSE), b \in Tried(TestId2[2], TRUE),
            x \in Tried(TestId2[3], FALSE),
            c \in Tried(TestId2[4], FALSE), d \in Tried(TestId2[5], TRUE)}

\* SerialNumber::new()
SerialInit ==
    /\ obj = "SerialNumber"
    /\ buffer = [i \in 1..14 |-> 0]
    /\ call = "new"
    /\ result = NoResult

\* buf_id1(): the caller overwrites buffer[0..8].
BufId1 ==
    /\ obj = "SerialNumber"
    /\ call = "new"
    /\ \E r \in Id1Responses : buffer' = r \o SubSeq(buffer, 9, 14)
    /\ call' = "buf_id1"
    /\ UNCHANGED <<obj, result>>
    /\ UNCHANGED crcVars
    /\ UNCHANGED busVars
    /\ UNCHANGED regVars

\* buf_id2(): the caller overwrites buffer[8..14].
BufId2 ==
    /\ obj = "SerialNumber"
    /\ call \in {"new", "buf_id1"}
    /\ \E r \in Id2Responses : buffer' = SubSeq(buffer, 1, 8) \o r
    /\ call' = "buf_id2"
    /\ UNCHANGED <<obj, result>>
    /\ UNCHANGED crcVars
    /\ UNCHANGED busVars
    /\ UNCHANGED regVars

SerialNumber ==
    /\ obj = "SerialNumber"
    /\ call \in {"new", "buf_id1", "buf_id2"}
    /\ result' = SerialNumber_serial_number(buffer)
    /\ call' = "serial_number"
    /\ UNCHANGED <<obj, buffer>>
    /\ UNCHANGED crcVars
    /\ UNCHANGED busVars
    /\ UNCHANGED regVars

SerialNext == BufId1 \/ BufId2 \/ SerialNumber

InitSerial == SerialInit /\ CrcIdle /\ RegIdle /\ BusIdle

SpecSerial == InitSerial /\ [][SerialNext]_vars

(***************************************************************************)
(* UserHeaterRegister                                                      *)
(*                                                                         *)
(* register[i] of the source is reg[i + 1] here.                           *)
(***************************************************************************)
USER_REGISTER1 == 0
HEATER_REGISTER == 1

MeasurementResolution == {"Rh12Temp14", "Rh8Temp12", "Rh10Temp10", "Rh11Temp11"}

\* `measurement_resolution as u8`: the enum's discriminant.
AsU8(r) ==
    CASE r = "Rh12Temp14" -> 0
      [] r = "Rh8Temp12" -> 1
      [] r = "Rh10Temp10" -> 128
      [] r = "Rh11Temp11" -> 129

\* u8::from(on) of a bool
U8FromBool(on) == IF on THEN 1 ELSE 0

\* What a method that returns no Result returns.
Value(v) == [tag |-> "Value", val |-> v]

\* UserHeaterRegister::measurement_resolution(&self)
measurement_resolution(reg) ==
    LET m == And8(reg[USER_REGISTER1 + 1], 129)
    IN  CASE m = 0 -> "Rh12Temp14"
          [] m = 1 -> "Rh8Temp12"
          [] m = 128 -> "Rh10Temp10"
          [] OTHER -> "Rh11Temp11"

\* A set_measurement_resolution whose mask keeps bit 0 (0x7f for 0x7e).
set_measurement_resolutionKeepsBit0(reg, r) ==
    [reg EXCEPT ![USER_REGISTER1 + 1] = Or8(And8(@, 127), AsU8(r))]

\* UserHeaterRegister::set_measurement_resolution(&mut self, r): the new register
set_measurement_resolution(reg, r) ==
    [reg EXCEPT ![USER_REGISTER1 + 1] = Or8(And8(@, 126), AsU8(r))]

\* UserHeaterRegister::heater_on(&self)
heater_on(reg) == And8(reg[USER_REGISTER1 + 1], 4) > 0

\* A set_heater_state whose mask clears the whole low nibble (0xf0 for 0xfb).
set_heater_stateClearsNibble(reg, on) ==
    [reg EXCEPT ![USER_REGISTER1 + 1] = Or8(And8(@, 240), 4 * U8FromBool(on))]

\* A set_heater_state without the 0x04 factor: the flag lands in bit 0.
set_heater_stateBit0(reg, on) ==
    [reg EXCEPT ![USER_REGISTER1 + 1] = Or8(And8(@, 251), U8FromBool(on))]

\* UserHeaterRegister::set_heater_state(&mut self, on): the new register
set_heater_state(reg, on) ==
    [reg EXCEPT ![USER_REGISTER1 + 1] = Or8(And8(@, 251), 4 * U8FromBool(on))]

\* UserHeaterRegister::heater_level(&self)
heater_level(reg) == And8(reg[HEATER_REGISTER + 1], 15)

\* A set_heater_level that lets level 16 through (> 0x10 for > 0x0f).
set_heater_levelOffByOne(reg, level) ==
    IF level > 16
    THEN [register |-> reg, result |-> Err("InvalidHeaterLevel")]
    ELSE [register |-> [reg EXCEPT ![HEATER_REGISTER + 1] =
                            Or8(And8(@, 240), level)],
          result |-> Ok(<<>>)]

\* A set_heater_level without the range test: the level is cut to its low
\* nibble and written.
set_heater_levelWrapsLevel(reg, level) ==
    [register |-> [reg EXCEPT ![HEATER_REGISTER + 1] =
                       Or8(And8(@, 240), And8(level, 15))],
     result |-> Ok(<<>>)]

\* UserHeaterRegister::set_heater_level(&mut self, heater_level): the new
\* register and the Result returned
set_heater_level(reg, level) ==
    IF level > 15
    THEN [register |-> reg, result |-> Err("InvalidHeaterLevel")]
    ELSE [register |-> [reg EXCEPT ![HEATER_REGISTER + 1] =
                            Or8(And8(@, 240), level)],
          result |-> Ok(<<>>)]

(***************************************************************************)
(* The register codec as a state machine: one UserHeaterRegister is        *)
(* constructed, its two bytes are or are not loaded, and its setters and   *)
(* getters are called in any order, any number of times.                   *)
(***************************************************************************)
\* The largest heater level tried, apart from HighLevels.
MaxLevel == 16

HighLevels == {240, 255}
HeaterLevels == 0..MaxLevel \cup HighLevels

\* The heater register is loaded, with any byte, when the user register
\* holds a byte whose reserved bits are all set or has not been loaded.
UserSamples == {b \in Byte : And8(b, 122) = 122}

\* UserHeaterRegister::new()
RegisterInit ==
    /\ obj = "UserHeaterRegister"
    /\ buffer = <<>>
    /\ call = "new"
    /\ result = NoResult
    /\ register = <<0, 0>>
    /\ setter = "new"
    /\ arg = "none"

\* buf_user(): the caller overwrites register[USER_REGISTER1].
BufUser ==
    /\ call = "new"
    /\ \E b \in Byte :
         /\ register' = [register EXCEPT ![USER_REGISTER1 + 1] = b]
         /\ arg' = b
    /\ call' = "buf_user"
    /\ setter' = "buf_user"
    /\ UNCHANGED <<obj, buffer, result>>
    /\ UNCHANGED crcVars
    /\ UNCHANGED busVars

\* buf_heater(): the caller overwrites register[HEATER_REGISTER].
BufHeater ==
    /\ call \in {"new", "buf_user"}
    /\ call = "buf_user" => register[USER_REGISTER1 + 1] \in UserSamples
    /\ \E b \in Byte :
         /\ register' = [register EXCEPT ![HEATER_REGISTER + 1] = b]
         /\ arg' = b
    /\ call' = "buf_heater"
    /\ setter' = "buf_heater"
    /\ UNCHANGED <<obj, buffer, result>>
    /\ UNCHANGED crcVars
    /\ UNCHANGED busVars

GetMeasurementResolution ==
    /\ result' = Value(measurement_resolution(register))
    /\ call' = "measurement_resolution"
    /\ UNCHANGED <<obj, buffer, register, setter, arg>>
    /\ UNCHANGED crcVars
    /\ UNCHANGED busVars

SetMeasurementResolution ==
    /\ \E r \in MeasurementResolution :
         /\ register' = set_measurement_resolution(register, r)
         /\ arg' = r
    /\ call' = "set_measurement_resolution"
    /\ setter' = "set_measurement_resolution"
    /\ result' = NoResult
    /\ UNCHANGED <<obj, buffer>>
    /\ UNCHANGED crcVars
    /\ UNCHANGED busVars

GetHeaterOn ==
    /\ result' = Value(heater_on(register))
    /\ call' = "heater_on"
    /\ UNCHANGED <<obj, buffer, register, setter, arg>>
    /\ UNCHANGED crcVars
    /\ UNCHANGED busVars

SetHeaterState ==
    /\ \E on \in BOOLEAN :
         /\ register' = set_heater_state(register, on)
         /\ arg' = on
    /\ call' = "set_heater_state"
    /\ setter' = "set_heater_state"
    /\ result' = NoResult
    /\ UNCHANGED <<obj, buffer>>
    /\ UNCHANGED crcVars
    /\ UNCHANGED busVars

GetHeaterLevel ==
    /\ result' = Value(heater_level(register))
    /\ call' = "heater_level"
    /\ UNCHANGED <<obj, buffer, register, setter, arg>>
    /\ UNCHANGED crcVars
    /\ UNCHANGED busVars

SetHeaterLevel ==
    /\ \E level \in HeaterLevels :
         /\ register' = set_heater_level(register, level).register
         /\ result' = set_heater_level(register, level).result
         /\ arg' = level
    /\ call' = "set_heater_level"
    /\ setter' = "set_heater_level"
    /\ UNCHANGED <<obj, buffer>>
    /\ UNCHANGED crcVars
    /\ UNCHANGED busVars

RegisterNext ==
    \/ BufUser \/ BufHeater
    \/ GetMeasurementResolution \/ SetMeasurementResolution
    \/ GetHeaterOn \/ SetHeaterState
    \/ GetHeaterLevel \/ SetHeaterLevel

InitRegister == RegisterInit /\ CrcIdle /\ BusIdle

SpecRegister == InitRegister /\ [][RegisterNext]_vars

(***************************************************************************)
(* Si7021 (src/src/lib.rs)                                                 *)
(*                                                                         *)
(* The transport is the caller's: each of its calls either fills the       *)
(* buffer it was given and returns Ok, or returns one of its own errors    *)
(* and leaves in the buffer whatever it leaves.  An outcome t is           *)
(* [status, data]: "Ok" or the error, and the buffer after the call.       *)
(* lib.rs holds its own copies of Crc8 and the decoders, the same line for *)
(* line as those of internal/mod.rs modelled above.                        *)
(***************************************************************************)
ADDRESS == 64
MEASURE_HUMIDITY_HOLD == <<229>>
MEASURE_TEMPERATURE_HOLD == <<227>>
READ_TEMPERATURE_FROM_HUMIDITY_MEASUREMENT == <<224>>
RESET == <<254>>
READ_ELECTRONIC_ID1 == <<250, 15>>
READ_ELECTRONIC_ID2 == <<252, 201>>
READ_FIRMWARE_REVISION == <<132, 184>>

\* Error::I2c(e)
ErrI2c(e) == [tag |-> "Err", err |-> "I2c", source |-> e]

\* The record of one transport call: i2c.write_read(0x40, command, buffer) or
\* i2c.write(0x40, command), with the length of the buffer and how it ended.
Transfer(kind, command, len, t) ==
    [kind |-> kind, address |-> ADDRESS, command |-> command, len |-> len,
     status |-> t.status]

\* `.map_err(Error::I2c)?; Ok(())` dropped: the transport's error is ignored.
Si7021_write_readIgnoresError(t) == Ok(<<>>)

\* Si7021::write_read: the transport's Ok, or its error wrapped in Error::I2c
Si7021_write_read(t) ==
    IF t.status = "Ok" THEN Ok(<<>>) ELSE ErrI2c(t.status)

\* Si7021::humidity(&mut self)
Si7021_humidity(t) ==
    LET r == Si7021_write_read(t)
    IN  [bus |-> <<Transfer("write_read", MEASURE_HUMIDITY_HOLD, 3, t)>>,
         buffer |-> t.data,
         result |-> IF r.tag = "Err" THEN r ELSE Humidity_humidity(t.data)]

\* Si7021::temperature_rh_measurement(&mut self)
Si7021_temperature_rh_measurement(t) ==
    LET r == Si7021_write_read(t)
        buf == t.data \o <<0>>
    IN  [bus |-> <<Transfer("write_read",
                            READ_TEMPERATURE_FROM_HUMIDITY_MEASUREMENT, 2, t)>>,
         buffer |-> buf,
         result |-> IF r.tag = "Err" THEN r
                    ELSE Temperature_temperature_nocrc(buf)]

\* Si7021::temperature(&mut self)
Si7021_temperature(t) ==
    LET r == Si7021_write_read(t)
    IN  [bus |-> <<Transfer("write_read", MEASURE_TEMPERATURE_HOLD, 3, t)>>,
         buffer |-> t.data,
         result |-> IF r.tag = "Err" THEN r ELSE Temperature_temperature(t.data)]

\* The first group's checksum tested between the two transfers: a wrong one
\* returns before READ_ELECTRONIC_ID2 is sent.
Si7021_serial_numberChecksFirst(t1, t2) ==
    LET r1 == Si7021_write_read(t1)
        x1 == Transfer("write_read", READ_ELECTRONIC_ID1, 8, t1)
        buf1 == t1.data \o <<0, 0, 0, 0, 0, 0>>
    IN  IF r1.tag = "Err"
        THEN [bus |-> <<x1>>, buffer |-> buf1, result |-> r1]
        ELSE IF Crc8_update(Crc8_default,
                            <<buf1[1], buf1[3], buf1[5], buf1[7]>>) # buf1[8]
        THEN [bus |-> <<x1>>, buffer |-> buf1, result |-> Err("ChecksumFailure")]
        ELSE LET r2 == Si7021_write_read(t2)
                 x2 == Transfer("write_read", READ_ELECTRONIC_ID2, 6, t2)
                 buf2 == t1.data \o t2.data
             IN  [bus |-> <<x1, x2>>,
                  buffer |-> buf2,
                  result |-> IF r2.tag = "Err" THEN r2
                             ELSE SerialNumber_serial_number(buf2)]

\* Si7021::serial_number(&mut self): t1 and t2 are the outcomes of the
\* transport's first and, when it is called again, second call.
Si7021_serial_number(t1, t2) ==
    LET r1 == Si7021_write_read(t1)
        x1 == Transfer("write_read", READ_ELECTRONIC_ID1, 8, t1)
        buf1 == t1.data \o <<0, 0, 0, 0, 0, 0>>
    IN  IF r1.tag = "Err"
        THEN [bus |-> <<x1>>, buffer |-> buf1, result |-> r1]
        ELSE LET r2 == Si7021_write_read(t2)
                 x2 == Transfer("write_read", READ_ELECTRONIC_ID2, 6, t2)
                 buf2 == t1.data \o t2.data
             IN  [bus |-> <<x1, x2>>,
                  buffer |-> buf2,
                  result |-> IF r2.tag = "Err" THEN r2
                             ELSE SerialNumber_serial_number(buf2)]

\* Si7021::firmware_revision(&mut self)
Si7021_firmware_revision(t) ==
    LET r == Si7021_write_read(t)
    IN  [bus |-> <<Transfer("write_read", READ_FIRMWARE_REVISION, 1, t)>>,
         buffer |-> t.data,
         result |-> IF r.tag = "Err" THEN r ELSE Ok(t.data[1])]

\* Si7021::reset(&mut self)
Si7021_reset(t) ==
    [bus |-> <<Transfer("write", RESET, 0, t)>>,
     buffer |-> <<>>,
     result |-> IF t.status = "Ok" THEN Ok(<<>>) ELSE ErrI2c(t.status)]

(***************************************************************************)
(* The Si7021 accessors as a state machine: the accessors are called in    *)
(* any order, and every transport call ends in any of its outcomes.        *)
(***************************************************************************)
\* The errors of the tests' MockI2c.
TransportErrors == {"NoResponse", "UnknownCommand"}

\* What the transport leaves in a buffer of n bytes when it fails: the
\* buffer as it was, or bytes of its own.
Left(n) == {[i \in 1..n |-> 0], [i \in 1..n |-> 255]}

Failures(n) == [status : TransportErrors, data : Left(n)]

\* The responses to the two measurement commands: the tests' responses and
\* the two ends of the range, each with the right and two wrong checksums.
MeasurementResponses ==
    UNION {{<<p[1], p[2], c>> : c \in ThirdBytes(p[1], p[2]) \cap
                                      {Crc8_update(Crc8_default, p), 0, 255}} :
            p \in TestSamples \cup {<<255, 255>>, <<12, 74>>}}

NocrcResponses == TestSamples \cup {<<255, 255>>, <<0, 1>>}

\* The responses to the two serial-number commands: the tests' responses,
\* whole or with the last byte or an unread byte replaced.
Id1Samples ==
    {TestId1, [TestId1 EXCEPT ![8] = 255], [TestId1 EXCEPT ![2] = 0],
     [i \in 1..8 |-> 0]}
Id2Samples ==
    {TestId2, [TestId2 EXCEPT ![6] = 255], [TestId2 EXCEPT ![3] = 0],
     [i \in 1..6 |-> 0]}

Outcomes(responses, n) == [status : {"Ok"}, data : responses] \cup Failures(n)

\* Si7021::new(i2c)
Si7021Init ==
    /\ obj = "Si7021"
    /\ buffer = <<>>
    /\ call = "new"
    /\ result = NoResult
    /\ BusIdle

\* Each action is one call of an accessor: r is what it returned, the
\* transport calls it made and the buffer it decoded or would have.
CallHumidity ==
    \E t \in Outcomes(MeasurementResponses, 3) :
        LET r == Si7021_humidity(t)
        IN  /\ call' = "humidity"
            /\ result' = r.result
            /\ bus' = r.bus
            /\ buffer' = r.buffer
            /\ UNCHANGED <<obj, device, heater>>
            /\ UNCHANGED crcVars
            /\ UNCHANGED regVars

CallTemperatureRhMeasurement ==
    \E t \in Outcomes(NocrcResponses, 2) :
        LET r == Si7021_temperature_rh_measurement(t)
        IN  /\ call' = "temperature_rh_measurement"
            /\ result' = r.result
            /\ bus' = r.bus
            /\ buffer' = r.buffer
            /\ UNCHANGED <<obj, device, heater>>
            /\ UNCHANGED crcVars
            /\ UNCHANGED regVars

CallTemperature ==
    \E t \in Outcomes(MeasurementResponses, 3) :
        LET r == Si7021_temperature(t)
        IN  /\ call' = "temperature"
            /\ result' = r.result
            /\ bus' = r.bus
            /\ buffer' = r.buffer
            /\ UNCHANGED <<obj, device, heater>>
            /\ UNCHANGED crcVars
            /\ UNCHANGED regVars

CallSerialNumber ==
    \E t1 \in Outcomes(Id1Samples, 8), t2 \in Outcomes(Id2Samples, 6) :
        LET r == Si7021_serial_number(t1, t2)
        IN  /\ call' = "serial_number"
            /\ result' = r.result
            /\ bus' = r.bus
            /\ buffer' = r.buffer
            /\ UNCHANGED <<obj, device, heater>>
            /\ UNCHANGED crcVars
            /\ UNCHANGED regVars

CallFirmwareRevision ==
    \E t \in Outcomes({<<b>> : b \in Byte}, 1) :
        LET r == Si7021_firmware_revision(t)
        IN  /\ call' = "firmware_revision"
            /\ result' = r.result
            /\ bus' = r.bus
            /\ buffer' = r.buffer
            /\ UNCHANGED <<obj, device, heater>>
            /\ UNCHANGED crcVars
            /\ UNCHANGED regVars

CallReset ==
    \E t \in Outcomes({<<>>}, 0) :
        LET r == Si7021_reset(t)
        IN  /\ call' = "reset"
            /\ result' = r.result
            /\ bus' = r.bus
            /\ buffer' = r.buffer
            /\ UNCHANGED <<obj, device, heater>>
            /\ UNCHANGED crcVars
            /\ UNCHANGED regVars

Next ==
    \/ CallHumidity
    \/ CallTemperatureRhMeasurement
    \/ CallTemperature
    \/ CallSerialNumber
    \/ CallFirmwareRevision
    \/ CallReset

\* No Crc8 and no UserHeaterRegister outlives an accessor.
Init == Si7021Init /\ CrcIdle /\ RegIdle

Spec == Init /\ [][Next]_vars

(***************************************************************************)
(* Si7021::set_heater                                                      *)
(*                                                                         *)
(* lib.rs holds the two read commands; the accessor itself and the two     *)
(* write commands are those of the specification (section 4.6 and the      *)
(* error kinds of section 7) and of the tests set_heater_on,               *)
(* set_heater_off and set_heater_invalid_power.  The device answers a read *)
(* with the register asked for and takes the byte of a write that          *)
(* succeeds; a transport call that fails leaves the device as it was.      *)
(***************************************************************************)
READ_USER_REGISTER1 == <<231>>
READ_HEATER_REGISTER == <<17>>
WRITE_USER_REGISTER1 == 230
WRITE_HEATER_REGISTER == 81

\* Option<u8>
None == [tag |-> "None"]
Some(v) == [tag |-> "Some", val |-> v]

\* The device's registers after a write transaction with these bytes.
DeviceWrite(dev, command) ==
    IF command[1] = WRITE_USER_REGISTER1
    THEN [dev EXCEPT ![USER_REGISTER1 + 1] = command[2]]
    ELSE IF command[1] = WRITE_HEATER_REGISTER
    THEN [dev EXCEPT ![HEATER_REGISTER + 1] = command[2]]
    ELSE dev

\* The transport calls set_heater makes when none fails, in order, for the
\* register values the device holds: [kind, command, len].
SetHeaterCalls(h, dev) ==
    LET new == <<0, 0>>
        on == h.tag = "Some"
        read == IF on THEN dev ELSE [new EXCEPT ![USER_REGISTER1 + 1] = dev[1]]
        state == set_heater_state(read, on)
        reg == IF on THEN set_heater_level(state, h.val).register ELSE state
        user == [kind |-> "write_read", command |-> READ_USER_REGISTER1, len |-> 1]
        level == [kind |-> "write_read", command |-> READ_HEATER_REGISTER, len |-> 1]
        wuser == [kind |-> "write", len |-> 0,
                  command |-> <<WRITE_USER_REGISTER1, reg[USER_REGISTER1 + 1]>>]
        wlevel == [kind |-> "write", len |-> 0,
                   command |-> <<WRITE_HEATER_REGISTER, reg[HEATER_REGISTER + 1]>>]
    IN  IF on THEN <<user, level, wuser, wlevel>> ELSE <<user, wuser>>

\* The device after the first n of these calls succeeded.
RECURSIVE DeviceAfter(_, _, _)
DeviceAfter(dev, calls, n) ==
    IF n = 0 THEN dev
    ELSE LET d == DeviceAfter(dev, calls, n - 1)
         IN  IF calls[n].kind = "write" THEN DeviceWrite(d, calls[n].command)
             ELSE d

\* Si7021::set_heater(&mut self, heater: Option<u8>) on a device holding dev,
\* where the transport's call number fail (0: none) ends with error e.
Si7021_set_heater(h, dev, fail, e) ==
    LET check == IF h.tag = "Some" THEN set_heater_level(<<0, 0>>, h.val).result
                 ELSE Ok(<<>>)
        calls == SetHeaterCalls(h, dev)
        made == IF fail \in 1..Len(calls) THEN fail ELSE Len(calls)
        t(i) == [status |-> IF i = fail THEN e ELSE "Ok"]
        last == Si7021_write_read(t(made))
    IN  IF check.tag = "Err"
        THEN [bus |-> <<>>, result |-> check, device |-> dev]
        ELSE [bus |-> [i \in 1..made |->
                          Transfer(calls[i].kind, calls[i].command,
                                   calls[i].len, t(i))],
              result |-> last,
              device |-> DeviceAfter(dev, calls, IF made = fail THEN made - 1
                                                 ELSE made)]

(***************************************************************************)
(* set_heater as a state machine: it is called any number of times, with   *)
(* any argument, on a device that keeps its registers between the calls,   *)
(* and any one of the transport calls of a call may fail.                  *)
(***************************************************************************)
\* The register values the device starts with: those of the tests
\* get_heater_off, get_heater_on, set_heater_off and set_heater_on, and a
\* mixed pattern.
DeviceUser == {0, 4, 58, 251, 255}
DeviceHeater == {0, 10, 165, 240, 255}

\* The levels set_heater is given: both ends and the middle of 0..15, the
\* levels just above and the HighLevels.
SetHeaterLevels == {0, 5, 10} \cup (15..MaxLevel) \cup HighLevels

HeaterArgs == {None} \cup {Some(l) : l \in SetHeaterLevels}

\* How the transport ends the calls of one set_heater: none fails, or call
\* number p[1] fails with error p[2] (a call that is not made cannot fail).
SetHeaterOutcomes == {<<0, "Ok">>} \cup ((1..4) \X TransportErrors)

HeaterInit ==
    /\ obj = "Si7021"
    /\ buffer = <<>>
    /\ call = "new"
    /\ result = NoResult
    /\ bus = <<>>
    /\ heater = NoResult
    /\ device \in DeviceUser \X DeviceHeater

CallSetHeater ==
    \E h \in HeaterArgs, p \in SetHeaterOutcomes :
        LET r == Si7021_set_heater(h, device, p[1], p[2])
        IN  /\ call' = "set_heater"
            /\ heater' = h
            /\ result' = r.result
            /\ bus' = r.bus
            /\ device' = r.device
            /\ UNCHANGED <<obj, buffer>>
            /\ UNCHANGED crcVars
            /\ UNCHANGED regVars

InitHeater == HeaterInit /\ CrcIdle /\ RegIdle

SpecHeater == InitHeater /\ [][CallSetHeater]_vars

(***************************************************************************)
(* The checksum as the specification words it, computed on sets of bit     *)
(* positions instead of the source's operators.                            *)
(***************************************************************************)
BitsOf(x) == {i \in 0..7 : (x \div (2 ^ i)) % 2 = 1}

RECURSIVE FromBits(_)
FromBits(S) ==
    IF S = {} THEN 0
    ELSE LET i == CHOOSE j \in S : TRUE IN (2 ^ i) + FromBits(S \ {i})

\* XOR: the positions set in exactly one of the two.
RefXor(a, b) == FromBits((BitsOf(a) \ BitsOf(b)) \cup (BitsOf(b) \ BitsOf(a)))

\* Shift left by one truncated to 8 bits, XORing 0x31 when the high bit was set.
RefShift(c) == IF c >= 128 THEN RefXor(2 * c - 256, 49) ELSE 2 * c

RefByte(c, b) ==
    RefShift(RefShift(RefShift(RefShift(RefShift(RefShift(RefShift(RefShift(
        RefXor(c, b)))))))))

RefCrcTable == [c \in Byte |-> RefByte(c, 0)]

RECURSIVE RefCrc(_, _)
RefCrc(c, in) ==
    IF in = <<>> THEN c ELSE RefCrc(RefCrcTable[RefXor(c, Head(in))], Tail(in))

(***************************************************************************)
(* Claims about the measurement decoders (SpecMeasurement)                 *)
(***************************************************************************)
Min(a, b) == IF a < b THEN a ELSE b
Max(a, b) == IF a > b THEN a ELSE b

\* The big-endian unsigned 16-bit value of the buffer's first two bytes.
Raw == 256 * buffer[1] + buffer[2]

\* The buffer's third byte is the checksum of its first two.
ChecksumRight == buffer[3] = RefCrc(0, <<buffer[1], buffer[2]>>)

\* C1: on a buffer whose third byte is the checksum of the first two,
\* Humidity::humidity returns Ok(min(10000, max(0, (12500 * raw) div 65536 -
\* 600))), a value in 0..10000; [0xa1,0xa6,0x51] gives 7292.
C1_HumidityValue ==
    (call = "humidity" /\ ChecksumRight) =>
        /\ result.tag = "Ok"
        /\ result.val = Min(10000, Max(0, ((12500 * Raw) \div 65536) - 600))
        /\ result.val \in 0..10000
        /\ (12500 * Raw >= 65536 * 600 /\ 12500 * Raw < 65536 * 10601) =>
              /\ 65536 * (result.val + 600) <= 12500 * Raw
              /\ 12500 * Raw < 65536 * (result.val + 601)
        /\ buffer = <<161, 166, 81>> => result.val = 7292

\* A raw value the formula takes above 10000 was decoded.
C1_Witness ==
    /\ call = "humidity" /\ buffer[1] = 255 /\ buffer[2] = 255 /\ ChecksumRight
    /\ result.tag = "Ok" /\ result.val = 10000

\* C2: Temperature::temperature_nocrc returns Err(NoPreviousHumidityMeasurement)
\* exactly when the first two bytes are both 0, and otherwise
\* Ok((17572 * raw) div 65536 - 4685), unclamped; [0x66,0x44] gives 2334.
C2_TemperatureNocrc ==
    call = "temperature_nocrc" =>
        /\ (result.tag = "Err") <=> (buffer[1] = 0 /\ buffer[2] = 0)
        /\ result.tag = "Err" => result.err = "NoPreviousHumidityMeasurement"
        /\ result.tag # "Err" =>
              /\ result.tag = "Ok"
              /\ result.val = ((17572 * Raw) \div 65536) - 4685
              /\ 65536 * (result.val + 4685) <= 17572 * Raw
              /\ 17572 * Raw < 65536 * (result.val + 4686)
        /\ (buffer[1] = 102 /\ buffer[2] = 68) => result.val = 2334

\* The lowest raw value but the sentinel was decoded, to a negative value.
C2_Witness ==
    /\ call = "temperature_nocrc" /\ buffer[1] = 0 /\ buffer[2] = 1
    /\ result.tag = "Ok" /\ result.val = -4685

\* C3: on a buffer whose third byte is not the checksum of the first two,
\* Humidity::humidity and Temperature::temperature return
\* Err(ChecksumFailure), also when the first two bytes are the sentinel 0, 0.
C3_ChecksumFailure ==
    (call \in {"humidity", "temperature"} /\ ~ChecksumRight) =>
        /\ result.tag = "Err"
        /\ result.err = "ChecksumFailure"

C3_Witness ==
    /\ call = "temperature" /\ buffer = <<0, 0, 255>>
    /\ result.tag = "Err" /\ result.err = "ChecksumFailure"

(***************************************************************************)
(* Claims about the serial-number decoder (SpecSerial)                     *)
(***************************************************************************)
\* Byte 7 is the checksum of bytes 0, 2, 4, 6 and byte 13 that of bytes 8, 9,
\* 11, 12, each from 0 (positions counted from 0, as in the source).
GroupARight == buffer[8] = RefCrc(0, <<buffer[1], buffer[3], buffer[5], buffer[7]>>)
GroupBRight == buffer[14] = RefCrc(0, <<buffer[9], buffer[10], buffer[12], buffer[13]>>)

\* C4: SerialNumber::serial_number returns Ok exactly when both group
\* checksums are right, and otherwise Err(ChecksumFailure); the Ok value's
\* bytes, most significant first, are buffer positions 0, 2, 4, 6, 8, 9, 11,
\* 12, whatever positions 1, 3, 5 and 10 hold.
C4_SerialNumber ==
    call = "serial_number" =>
        /\ (result.tag = "Ok") <=> (GroupARight /\ GroupBRight)
        /\ result.tag = "Ok" =>
              result.val = <<buffer[1], buffer[3], buffer[5], buffer[7],
                             buffer[9], buffer[10], buffer[12], buffer[13]>>
        /\ result.tag # "Ok" =>
              (result.tag = "Err" /\ result.err = "ChecksumFailure")
        /\ buffer = TestId1 \o TestId2 =>
              result = Ok(<<132, 44, 249, 177, 21, 255, 255, 255>>)

\* The test's serial number was decoded from a buffer whose positions 1, 3, 5
\* and 10 differ from the test's.
C4_Witness ==
    /\ call = "serial_number"
    /\ buffer = <<132, 0, 44, 0, 249, 0, 177, 168, 21, 255, 0, 255, 255, 203>>
    /\ result.tag = "Ok"
    /\ result.val = <<132, 44, 249, 177, 21, 255, 255, 255>>

(***************************************************************************)
(* Claims about the register codec (SpecRegister)                          *)
(***************************************************************************)
\* Bit i (0 the least significant) of byte x.
BitAt(x, i) == (x \div (2 ^ i)) % 2

\* Bytes x and y agree at every bit position in S.
SameBits(x, y, S) == \A i \in S : BitAt(x, i) = BitAt(y, i)

UserByte == register[1]
HeaterByte == register[2]

\* C7: set_measurement_resolution(r) leaves a user byte that equals the one
\* it found in bits 1 to 6 (0xff and Rh12Temp14 leave 0x7e), and a
\* measurement_resolution() that follows it returns r.
C7_ResolutionRoundTrip ==
    [][ /\ call' = "set_measurement_resolution" =>
              /\ SameBits(UserByte', UserByte, 1..6)
              /\ (UserByte = 255 /\ arg' = "Rh12Temp14") => UserByte' = 126
        /\ (call' = "measurement_resolution"
                /\ setter = "set_measurement_resolution") =>
              (result'.tag = "Value" /\ result'.val = arg)
      ]_vars

\* Rh10Temp10 was set on a user byte and read back.
C7_Witness ==
    /\ call = "measurement_resolution" /\ setter = "set_measurement_resolution"
    /\ arg = "Rh10Temp10" /\ result = Value("Rh10Temp10")
    /\ UserByte = 254

\* C8: set_heater_level(level) returns Err(InvalidHeaterLevel) exactly when
\* level > 15 and then leaves both bytes as they were; otherwise it returns
\* Ok, leaves the heater byte's high nibble as it was, and a heater_level()
\* that follows it returns level.
C8_HeaterLevel ==
    [][ /\ call' = "set_heater_level" =>
              /\ (result'.tag = "Err") <=> (arg' > 15)
              /\ result'.tag = "Err" =>
                    (result'.err = "InvalidHeaterLevel" /\ register' = register)
              /\ result'.tag # "Err" =>
                    /\ result'.tag = "Ok"
                    /\ SameBits(HeaterByte', HeaterByte, 4..7)
        /\ (call' = "heater_level" /\ setter = "set_heater_level"
                /\ arg <= 15) =>
              (result'.tag = "Value" /\ result'.val = arg)
      ]_vars

\* Level 10 was set on a heater byte with its high nibble set, and read back.
C8_Witness ==
    /\ call = "heater_level" /\ setter = "set_heater_level"
    /\ arg = 10 /\ result = Value(10) /\ HeaterByte = 250

\* C9: no call after the bytes were loaded changes user bits 1, 3, 4, 5, 6 or
\* heater bits 4 to 7; set_measurement_resolution changes at most user bits 0
\* and 7, set_heater_state at most user bit 2, set_heater_level at most heater
\* bits 0 to 3, whether it succeeds or fails.
C9_ReservedBitsKept ==
    [][ /\ call' \notin {"buf_user", "buf_heater"} =>
              /\ SameBits(UserByte', UserByte, {1, 3, 4, 5, 6})
              /\ SameBits(HeaterByte', HeaterByte, 4..7)
        /\ call' = "set_measurement_resolution" =>
              /\ SameBits(UserByte', UserByte, 1..6)
              /\ HeaterByte' = HeaterByte
        /\ call' = "set_heater_state" =>
              /\ SameBits(UserByte', UserByte, {0, 1, 3, 4, 5, 6, 7})
              /\ HeaterByte' = HeaterByte
        /\ call' = "set_heater_level" =>
              /\ UserByte' = UserByte
              /\ SameBits(HeaterByte', HeaterByte, 4..7)
      ]_vars

\* The heater was switched off in a user byte whose other bits stayed set.
C9_Witness ==
    /\ call = "set_heater_state" /\ arg = FALSE
    /\ UserByte = 251 /\ HeaterByte = 255

(***************************************************************************)
(* Claims about the Si7021 accessors (Spec)                                *)
(***************************************************************************)
\* The transport calls of the last accessor that failed.
Failed == {i \in 1..Len(bus) : bus[i].status # "Ok"}

\* The commands of an accessor, in the order it sends them.
CommandsOf(name) ==
    CASE name = "humidity" -> <<MEASURE_HUMIDITY_HOLD>>
      [] name = "temperature" -> <<MEASURE_TEMPERATURE_HOLD>>
      [] name = "temperature_rh_measurement" ->
            <<READ_TEMPERATURE_FROM_HUMIDITY_MEASUREMENT>>
      [] name = "serial_number" -> <<READ_ELECTRONIC_ID1, READ_ELECTRONIC_ID2>>
      [] name = "firmware_revision" -> <<READ_FIRMWARE_REVISION>>
      [] name = "reset" -> <<RESET>>
      [] OTHER -> <<>>

\* C10: a transport call of an accessor that fails is its last one, and the
\* accessor returns Error::I2c wrapping that call's error; no command is sent
\* twice; Error::I2c is returned only for a failed transport call, so after a
\* failure nothing a decoder made of the buffer is returned.
C10_FirstFailureEnds ==
    /\ \A i \in Failed :
          /\ i = Len(bus)
          /\ result.tag = "Err" /\ result.err = "I2c"
          /\ result.source = bus[i].status
    /\ Len(bus) <= Len(CommandsOf(call))
    /\ \A i \in 1..Len(bus) : bus[i].command = CommandsOf(call)[i]
    /\ (result.tag = "Err" /\ result.err = "I2c") => Failed # {}
    /\ (call # "new" /\ Failed = {}) => Len(bus) = Len(CommandsOf(call))

\* serial_number's first transfer failed, and no second one was made.
C10_Witness ==
    /\ call = "serial_number"
    /\ Len(bus) = 1 /\ bus[1].command = READ_ELECTRONIC_ID1
    /\ bus[1].status = "NoResponse"
    /\ result = ErrI2c("NoResponse")

\* C13: Si7021::serial_number sends READ_ELECTRONIC_ID1 for 8 bytes and then
\* READ_ELECTRONIC_ID2 for 6 bytes, both as write_read calls to address 0x40
\* and nothing else; the second is sent whenever the first transfer succeeds,
\* whatever checksum the first group carries, and when both succeed and the
\* first group's checksum is wrong the call returns ChecksumFailure.
C13_SerialNumberTransfers ==
    call = "serial_number" =>
        /\ Len(bus) \in {1, 2}
        /\ \A i \in 1..Len(bus) :
              bus[i].kind = "write_read" /\ bus[i].address = 64
        /\ bus[1].command = <<250, 15>> /\ bus[1].len = 8
        /\ bus[1].status = "Ok" <=> Len(bus) = 2
        /\ Len(bus) = 2 => (bus[2].command = <<252, 201>> /\ bus[2].len = 6)
        /\ Failed = {} => Len(buffer) = 14
        /\ (Failed = {} /\ ~GroupARight) =>
              (result.tag = "Err" /\ result.err = "ChecksumFailure")

\* Both transfers succeeded, the first with a wrong checksum byte.
C13_Witness ==
    /\ call = "serial_number"
    /\ Len(bus) = 2 /\ bus[1].status = "Ok" /\ bus[2].status = "Ok"
    /\ bus[2].command = READ_ELECTRONIC_ID2
    /\ buffer = [TestId1 EXCEPT ![8] = 255] \o TestId2
    /\ ~GroupARight /\ GroupBRight
    /\ result.tag = "Err" /\ result.err = "ChecksumFailure"

(***************************************************************************)
(* Claims about Si7021::set_heater (SpecHeater)                            *)
(***************************************************************************)
\* Byte x with bit 2 set.
WithBit2(x) == IF BitAt(x, 2) = 1 THEN x ELSE x + 4

\* Byte x with its low nibble replaced by level.
WithLevel(x, level) == 16 * (x \div 16) + level

C12_TwoWritesNotAtomic ==
    [][(heater'.tag = "Some" /\ heater'.val <= 15) =>
          LET user == WithBit2(device[1])
              level == WithLevel(device[2], heater'.val)
              all == <<[kind |-> "write_read", command |-> <<231>>],
                       [kind |-> "write_read", command |-> <<17>>],
                       [kind |-> "write", command |-> <<230, user>>],
                       [kind |-> "write", command |-> <<81, level>>]>>
              n == Len(bus')
              ok(i) == n >= i /\ bus'[i].status = "Ok"
          IN  /\ n \in 1..4
              /\ \A i \in 1..n :
                    /\ bus'[i].kind = all[i].kind
                    /\ bus'[i].command = all[i].command
                    /\ bus'[i].address = 64
                    /\ i < n => bus'[i].status = "Ok"
              /\ n < 4 => bus'[n].status # "Ok"
              /\ device'[1] = IF ok(3) THEN user ELSE device[1]
              /\ device'[2] = IF ok(4) THEN level ELSE device[2]
              /\ ok(4) <=> result'.tag = "Ok"
              /\ (ok(3) /\ ~ok(4)) =>
                    /\ n = 4
                    /\ result'.tag = "Err" /\ result'.err = "I2c"
                    /\ result'.source = bus'[4].status
                    /\ BitAt(device'[1], 2) = 1
                    /\ device'[2] = device[2]]_vars

\* set_heater(Some(0x0a)) on the registers of set_heater_on, where the
\* write of the user register succeeded and that of the heater register
\* failed.
C12_Witness ==
    /\ call = "set_heater"
    /\ heater = Some(10)
    /\ Len(bus) = 4
    /\ bus[3].command = <<230, 255>> /\ bus[3].status = "Ok"
    /\ bus[4].command = <<81, 250>> /\ bus[4].status = "UnknownCommand"
    /\ result.tag = "Err" /\ result.err = "I2c"
    /\ device = <<255, 240>>

(***************************************************************************)
(* Claims about the accumulator (SpecCrc)                                  *)
(***************************************************************************)
\* C5: every Crc8::update call returns, and leaves in the accumulator, the
\* checksum the specification defines over the accumulator it found and the
\* slice it was given; the accumulator is always a byte; from 0 the slice
\* [0x84,0x2c,0xf9,0xb1] gives 0xa8 and [0x15,0xff,0xff,0xff] gives 0xcb.
C5_UpdateIsTheChecksum ==
    /\ crc \in Byte
    /\ ret >= 0 => (ret = RefCrc(prev, input) /\ crc = ret)
    /\ (ret >= 0 /\ prev = 0 /\ input = CrcVector1) => ret = 168
    /\ (ret >= 0 /\ prev = 0 /\ input = CrcVector2) => ret = 203

C5_Witness ==
    /\ prev = 0 /\ input = CrcVector2 /\ ret = 203 /\ crc = 203

\* C6: however the bytes given to one Crc8 were split into update calls, the
\* last call returns and leaves what a single update of all of them on a fresh
\* accumulator returns; [0x84,0x2c,0xf9,0xb1] given one byte per call returns
\* 0xbe, 0x5b, 0x9e, 0xa8 in turn.
C6_UpdatesCompose ==
    /\ ret >= 0 => (crc = Crc8_update(Crc8_default, fed) /\ ret = crc)
    /\ \A k \in 1..4 :
          (ret >= 0 /\ fed = SubSeq(CrcVector1, 1, k) /\ input = <<CrcVector1[k]>>)
              => ret = CrcChain[k]

\* Three calls were made, the last two of which split a slice in two.
C6_Witness ==
    /\ fed = CrcVector1 /\ input = <<177>> /\ prev = 158
    /\ ret = 168 /\ crc = 168

=============================================================================
